---- MODULE Spec2Model ----
(***************************************************************************)
(* Model of kaamiki/utils/logging.py: the Logger composition root, its     *)
(* rotating file sink, its console sink and the record formatter.          *)
(*                                                                         *)
(* The Logger of logging.py builds its sinks from the handlers of the      *)
(* Python logging library (RotatingFileHandler, TimedRotatingFileHandler,  *)
(* FileHandler, StreamHandler).  A definition that models the behaviour of *)
(* one of those handlers is tied to the line of logging.py that            *)
(* instantiates or calls it, and follows the handler as the library        *)
(* executes it (handle: acquire, emit, release; emit: shouldRollover,      *)
(* doRollover, write).                                                     *)
(***************************************************************************)
EXTENDS Integers, Sequences, FiniteSets, TLC

(***************************************************************************)
(* Bounds of the model.                                                    *)
(***************************************************************************)
NThreads == 2
MaxRecords == 3
MaxBackups == 3

Threads == 1..NThreads
Recs == 1..MaxRecords

(* Levels of the logging library, the keys of _colors. *)
DEBUG == 10
INFO == 20
WARNING == 30
ERROR == 40
CRITICAL == 50
Levels == {DEBUG, INFO, WARNING, ERROR, CRITICAL}

(* Inputs of the rotation specification: the maxBytes, backupCount and
   level arguments (level 0 stands for no level given) and the levels of
   the records, one of them a custom level below DEBUG. *)
MaxBytesInputs == {0, 1, 3}
BackupCounts == 0..MaxBackups
LevelInputs == {0, WARNING}
RecordLevels == {DEBUG - 5, INFO, ERROR}

MaxIdx == MaxBackups + 1
MaxIno == 1 + MaxRecords
MaxH == 1 + 3 * MaxRecords

VARIABLES
  \* Logger configuration (Logger.__init__ arguments)
  maxBytes, backupCount, level, delay,
  \* the directory of the log file: names[0] is <name>.log, names[i] is
  \* <name>.log.i; the value is the file (inode serial) or 0 when absent
  names, content, nIno,
  \* the file sink: self.stream is a handle or 0 (None)
  stream, hIno, hClosed, nH,
  \* the handler's I/O lock: 0 or the owning thread
  lock,
  \* the caller threads
  pc, cur, nrec, loc, ri, below,
  \* the console sink: the number of lines written for each record
  console,
  \* history of the run
  removedIdx, dropped, pending, hitPending, lastRotated, rotations,
  filtered, formatted, failed,
  \* the Logger instances constructed so far, the logger registry of the
  \* logging library, the handler and formatter objects, the records emitted
  insts, loggers, handlers, formatters, emits,
  \* one record on its way through the formatter: the record, whether a
  \* format template was given, the module name derived for it, the line of
  \* the file sink, the line of the console sink and the stage reached
  rec, userFmt, module, line, cline, phase

cfgVars == <<maxBytes, backupCount, level, delay>>
fsVars == <<names, content, nIno>>
sinkVars == <<stream, hIno, hClosed, nH>>
thrVars == <<pc, cur, nrec, loc, ri, below>>
histVars == <<removedIdx, dropped, pending, hitPending, lastRotated,
              rotations>>
rotVars == <<cfgVars, fsVars, sinkVars, lock, thrVars, console, histVars,
             filtered, formatted, failed>>

instVars == <<insts, loggers, handlers, formatters, emits>>

fmtVars == <<rec, userFmt, module, line, cline, phase>>

vars == <<rotVars, instVars, fmtVars>>

(***************************************************************************)
(* Helpers                                                                 *)
(***************************************************************************)
(* Size of the line "%s\n" % self.format(record) of a record. *)
MsgLen(r) == IF r % 2 = 1 THEN 1 ELSE 2

RECURSIVE FileSize(_)
FileSize(s) == IF s = <<>> THEN 0 ELSE MsgLen(Head(s)) + FileSize(Tail(s))

(* stream.tell() after seek(0, 2): the size of the file. *)
Tell(ino) == FileSize(content[ino])

(* level if level else logging.DEBUG *)
MinLevel(lv) == IF lv # 0 THEN lv ELSE DEBUG

(* LoggerAdapter.log -> Logger.isEnabledFor; the first definition is the
   test of a logger that has no level check. *)
isEnabledFor_Always(lvl) == TRUE

isEnabledFor(lvl) == lvl >= MinLevel(level)

Range(s) == {s[j] : j \in 1..Len(s)}
Count(s, r) == Cardinality({j \in 1..Len(s) : s[j] = r})

(* The state of the formatter variables while no record is formatted. *)
FmtIdle ==
  /\ rec = <<>> /\ userFmt = FALSE /\ module = <<>>
  /\ line = <<>> /\ cline = <<>> /\ phase = "idle"

(***************************************************************************)
(* The file sink: RotatingFileHandler(self._file, "a", self.maxBytes,      *)
(* self.backupCount, self.encoding, self.delay)                            *)
(***************************************************************************)

(* self._open(): open <name>.log in mode "a", creating it when absent. *)
OpenNames == IF names[0] = 0 THEN [names EXCEPT ![0] = nIno + 1] ELSE names

DoOpen ==
  /\ names' = OpenNames
  /\ nIno' = IF names[0] = 0 THEN nIno + 1 ELSE nIno
  /\ nH' = nH + 1
  /\ hIno' = [hIno EXCEPT ![nH + 1] = OpenNames[0]]
  /\ stream' = nH + 1
  /\ hClosed' = hClosed

(* if self.stream is None: self.stream = self._open() *)
OpenIfNone ==
  IF stream = 0 THEN DoOpen
  ELSE UNCHANGED <<names, nIno, nH, hIno, stream, hClosed>>

(* RotatingFileHandler.shouldRollover: the size test; the first definition
   is the test without the maxBytes > 0 guard. *)
shouldRollover_NoZeroGuard(size, r) == size + MsgLen(r) >= maxBytes

shouldRollover(size, r) ==
  /\ maxBytes > 0
  /\ size + MsgLen(r) >= maxBytes

Rec(t) == cur[t]

(* log.<level>(msg) of the next record: LoggerAdapter.log drops the record when the logger is
   not enabled for its level, otherwise Logger.handle -> callHandlers. *)
Log(t) ==
  /\ pc[t] = "idle"
  /\ nrec < MaxRecords
  /\ nrec' = nrec + 1
  /\ \E lvl \in RecordLevels :
       /\ below' = IF lvl < MinLevel(level) THEN below \cup {nrec'}
                   ELSE below
       /\ IF isEnabledFor(lvl)
            THEN /\ pc' = [pc EXCEPT ![t] = "acquire"]
                 /\ cur' = [cur EXCEPT ![t] = nrec']
                 /\ filtered' = filtered
            ELSE /\ filtered' = filtered \cup {nrec'}
                 /\ UNCHANGED <<pc, cur>>
  /\ UNCHANGED <<fmtVars, instVars, cfgVars, fsVars, sinkVars, lock, loc, ri, console,
                 histVars, formatted, failed>>

(* Handler.handle: self.acquire(); the first definition is a handler
   without mutual exclusion. *)
CanAcquire_NoLock(t) == TRUE

CanAcquire(t) == lock = 0

Acquire(t) ==
  /\ pc[t] = "acquire"
  /\ CanAcquire(t)
  /\ lock' = t
  /\ pc' = [pc EXCEPT ![t] = "should"]
  /\ UNCHANGED <<fmtVars, instVars, cfgVars, fsVars, sinkVars, cur, nrec, loc, ri, below, console,
                 histVars, filtered, formatted, failed>>

(* BaseRotatingHandler.emit: if self.shouldRollover(record) *)
ShouldRollover(t) ==
  /\ pc[t] = "should"
  /\ OpenIfNone
  /\ content' = content
  /\ formatted' = IF maxBytes > 0 THEN formatted \cup {Rec(t)} ELSE formatted
  /\ pc' = [pc EXCEPT ![t] =
              IF shouldRollover(Tell(OpenNames[0]), Rec(t))
                THEN "roll_close" ELSE "emit"]
  /\ UNCHANGED <<fmtVars, instVars, cfgVars, lock, cur, nrec, loc, ri, below, console, histVars,
                 filtered, failed>>

(* The source indexes of the rename chain, in the order doRollover visits
   them: range(self.backupCount - 1, 0, -1).  The first two definitions are
   the chains that start one index too low and one index too high. *)
BackupRange_FromBelow(bc) == [j \in 1..(bc - 2) |-> bc - 1 - j]

BackupRange_FromCount(bc) == [j \in 1..bc |-> bc + 1 - j]

BackupRange(bc) == [j \in 1..(bc - 1) |-> bc - j]

(* doRollover: close the stream, then start the rename chain. *)
RollClose(t) ==
  /\ pc[t] = "roll_close"
  /\ hClosed' = IF stream # 0 THEN hClosed \cup {stream} ELSE hClosed
  /\ stream' = 0
  /\ rotations' = rotations + 1
  /\ pending' = IF backupCount > 0
                  THEN {j \in 0..(backupCount - 1) : names[j] # 0} ELSE {}
  /\ IF backupCount > 0
       THEN /\ ri' = [ri EXCEPT ![t] = 1]
            /\ pc' = [pc EXCEPT ![t] = "roll_loop"]
       ELSE /\ ri' = ri
            /\ pc' = [pc EXCEPT ![t] = "roll_open"]
  /\ UNCHANGED <<fmtVars, instVars, cfgVars, fsVars, hIno, nH, lock, cur, nrec, loc, below,
                 console, removedIdx, dropped, hitPending, lastRotated,
                 filtered, formatted, failed>>

(* One iteration of the chain: <name>.log.i -> <name>.log.(i+1); an
   existing destination is removed first. *)
RenameStep(s, d) ==
  IF names[s] # 0
    THEN /\ names' = [names EXCEPT ![d] = names[s], ![s] = 0]
         /\ removedIdx' = IF names[d] # 0 THEN removedIdx \cup {d}
                          ELSE removedIdx
         /\ dropped' = IF names[d] # 0 THEN dropped \cup {names[d]}
                       ELSE dropped
         /\ pending' = pending \ {s}
         /\ hitPending' = (hitPending \/ d \in (pending \ {s}))
    ELSE UNCHANGED <<names, removedIdx, dropped, pending, hitPending>>

RollLoop(t) ==
  /\ pc[t] = "roll_loop"
  /\ ri[t] <= Len(BackupRange(backupCount))
  /\ RenameStep(BackupRange(backupCount)[ri[t]],
                BackupRange(backupCount)[ri[t]] + 1)
  /\ ri' = [ri EXCEPT ![t] = @ + 1]
  /\ UNCHANGED <<fmtVars, instVars, cfgVars, content, nIno, sinkVars, lock, pc, cur, nrec, loc,
                 below, console, lastRotated, rotations, filtered,
                 formatted, failed>>

(* After the loop: remove <name>.log.1 when it exists and rename the
   active file to it (self.rotate(self.baseFilename, dfn)). *)
RollBase(t) ==
  /\ pc[t] = "roll_loop"
  /\ ri[t] > Len(BackupRange(backupCount))
  /\ IF names[0] # 0
       THEN /\ RenameStep(0, 1)
            /\ lastRotated' = names[0]
       ELSE /\ names' = [names EXCEPT ![1] = 0]
            /\ removedIdx' = IF names[1] # 0 THEN removedIdx \cup {1}
                             ELSE removedIdx
            /\ dropped' = IF names[1] # 0 THEN dropped \cup {names[1]}
                          ELSE dropped
            /\ UNCHANGED <<pending, hitPending, lastRotated>>
  /\ ri' = [ri EXCEPT ![t] = 0]
  /\ pc' = [pc EXCEPT ![t] = "roll_open"]
  /\ UNCHANGED <<fmtVars, instVars, cfgVars, content, nIno, sinkVars, lock, cur, nrec, loc,
                 below, console, rotations, filtered, formatted, failed>>

(* if not self.delay: self.stream = self._open() *)
RollOpen(t) ==
  /\ pc[t] = "roll_open"
  /\ IF ~delay THEN DoOpen
     ELSE UNCHANGED <<names, nIno, nH, hIno, stream, hClosed>>
  /\ content' = content
  /\ pc' = [pc EXCEPT ![t] = "emit"]
  /\ UNCHANGED <<fmtVars, instVars, cfgVars, lock, cur, nrec, loc, ri, below, console, histVars,
                 filtered, formatted, failed>>

(* FileHandler.emit opens the stream when it is None; StreamHandler.emit
   formats the record and reads self.stream. *)
Emit(t) ==
  /\ pc[t] = "emit"
  /\ OpenIfNone
  /\ content' = content
  /\ formatted' = formatted \cup {Rec(t)}
  /\ loc' = [loc EXCEPT ![t] = stream']
  /\ pc' = [pc EXCEPT ![t] = "write"]
  /\ UNCHANGED <<fmtVars, instVars, cfgVars, lock, cur, nrec, ri, below, console, histVars,
                 filtered, failed>>

(* stream.write(msg + self.terminator); a write to a closed file raises and
   handleError swallows the record. *)
Write(t) ==
  /\ pc[t] = "write"
  /\ IF loc[t] \in hClosed
       THEN /\ failed' = failed \cup {Rec(t)}
            /\ content' = content
       ELSE /\ content' = [content EXCEPT ![hIno[loc[t]]] = Append(@, Rec(t))]
            /\ failed' = failed
  /\ loc' = [loc EXCEPT ![t] = 0]
  /\ pc' = [pc EXCEPT ![t] = "release"]
  /\ UNCHANGED <<fmtVars, instVars, cfgVars, names, nIno, sinkVars, lock, cur, nrec, ri,
                 below, console, histVars, filtered, formatted>>

(* Handler.handle: self.release() *)
Release(t) ==
  /\ pc[t] = "release"
  /\ lock' = IF lock = t THEN 0 ELSE lock
  /\ pc' = [pc EXCEPT ![t] = "console"]
  /\ UNCHANGED <<fmtVars, instVars, cfgVars, fsVars, sinkVars, cur, nrec, loc, ri, below, console,
                 histVars, filtered, formatted, failed>>

(* The console sink handles the record under its own lock. *)
Console(t) ==
  /\ pc[t] = "console"
  /\ console' = [console EXCEPT ![Rec(t)] = @ + 1]
  /\ cur' = [cur EXCEPT ![t] = 0]
  /\ pc' = [pc EXCEPT ![t] = "idle"]
  /\ UNCHANGED <<fmtVars, instVars, cfgVars, fsVars, sinkVars, lock, nrec, loc, ri, below,
                 histVars, filtered, formatted, failed>>

(* Logger(level=lv, maxBytes=mb, backupCount=bc, delay=dl) with rotate=True
   and rotate_by="size", in an empty log directory. *)
InitRot ==
  /\ maxBytes \in MaxBytesInputs
  /\ backupCount \in BackupCounts
  /\ level \in LevelInputs
  /\ delay \in BOOLEAN
  /\ names = [j \in 0..MaxIdx |-> IF j = 0 /\ ~delay THEN 1 ELSE 0]
  /\ content = [j \in 1..MaxIno |-> <<>>]
  /\ nIno = IF delay THEN 0 ELSE 1
  /\ stream = IF delay THEN 0 ELSE 1
  /\ hIno = [h \in 1..MaxH |-> IF h = 1 /\ ~delay THEN 1 ELSE 0]
  /\ hClosed = {}
  /\ nH = IF delay THEN 0 ELSE 1
  /\ lock = 0
  /\ pc = [t \in Threads |-> "idle"]
  /\ cur = [t \in Threads |-> 0]
  /\ nrec = 0
  /\ loc = [t \in Threads |-> 0]
  /\ ri = [t \in Threads |-> 0]
  /\ below = {}
  /\ console = [r \in Recs |-> 0]
  /\ removedIdx = {}
  /\ dropped = {}
  /\ pending = {}
  /\ hitPending = FALSE
  /\ lastRotated = 0
  /\ rotations = 0
  /\ filtered = {}
  /\ formatted = {}
  /\ failed = {}
  /\ insts = <<>>
  /\ loggers = <<>>
  /\ handlers = <<>>
  /\ formatters = <<>>
  /\ emits = <<>>
  /\ FmtIdle

NextRot ==
  \E t \in Threads :
    \/ Log(t)
    \/ Acquire(t)
    \/ ShouldRollover(t)
    \/ RollClose(t)
    \/ RollLoop(t)
    \/ RollBase(t)
    \/ RollOpen(t)
    \/ Emit(t)
    \/ Write(t)
    \/ Release(t)
    \/ Console(t)

Spec == InitRot /\ [][NextRot]_vars

(***************************************************************************)
(* Properties of the rotating file sink                                    *)
(***************************************************************************)
AllDone == \A t \in Threads : pc[t] = "idle"

(* The records that passed the level filter. *)
Issued == 1..nrec
Accepted == Issued \ filtered

Backups == {j \in 1..MaxIdx : names[j] # 0}
LiveFiles == {names[j] : j \in 0..MaxIdx} \ {0}

Lines(inos) ==
  {<<f, j>> : f \in inos, j \in 1..MaxIno} \cap
  {x \in (1..MaxIno) \X (1..MaxIno) : x[2] <= Len(content[x[1]])}

LinesOf(inos, r) == {x \in Lines(inos) : content[x[1]][x[2]] = r}

(* C1 as stated: after all threads finish, the active file and the
   existing backups hold every emitted record exactly once. *)
C1_AllRecordsKept ==
  AllDone =>
    /\ Cardinality(Lines(LiveFiles)) = Cardinality(Accepted)
    /\ \A r \in Accepted : Cardinality(LinesOf(LiveFiles, r)) = 1

(* C1 amended: after all threads finish, every emitted record is on exactly
   one line, either of a file that still exists or of a backup segment that
   retention deleted; retention deletes only <name>.log.<backupCount>, no
   write failed, and the files hold no line of any other record. *)
C1_KeptOrRetired ==
  AllDone =>
    /\ \A r \in Accepted :
         Cardinality(LinesOf(LiveFiles, r)) +
         Cardinality(LinesOf(dropped, r)) = 1
    /\ \A x \in Lines(1..MaxIno) : content[x[1]][x[2]] \in Accepted
    /\ removedIdx \subseteq {backupCount}
    /\ failed = {}
    /\ (dropped = {} =>
          Cardinality(Lines(LiveFiles)) = Cardinality(Accepted))

C1_Witness ==
  /\ AllDone
  /\ Cardinality(Accepted) = MaxRecords
  /\ rotations > backupCount
  /\ backupCount > 0
  /\ dropped # {}
  /\ Cardinality(Lines(LiveFiles)) < MaxRecords

(* C2: with maxBytes > 0 at most backupCount backups exist, all of them
   among <name>.log.1 .. <name>.log.<backupCount>; <name>.log.1, when it
   exists, is the segment rotated last, and a lower index is newer. *)
C2_RetentionBound ==
  maxBytes > 0 =>
    /\ Cardinality(Backups) <= backupCount
    /\ \A j \in Backups : j <= backupCount
    /\ (names[1] # 0 => names[1] = lastRotated)
    /\ \A i, j \in Backups : i < j => names[i] > names[j]

C2_Witness ==
  /\ maxBytes > 0
  /\ backupCount = 2
  /\ rotations > backupCount
  /\ Backups = {1, 2}
  /\ content[names[1]] # <<>>

(* C3: no rename of a rotation has as its target a file that is still to
   be renamed, and the only file a rotation removes is
   <name>.log.<backupCount>. *)
C3_RenameOrder ==
  /\ ~hitPending
  /\ removedIdx \subseteq {backupCount}
  /\ (\A t \in Threads : pc[t] # "roll_loop") => pending = {}

C3_Witness ==
  /\ backupCount >= 2
  /\ removedIdx = {backupCount}
  /\ Backups = 1..backupCount
  /\ \E t \in Threads : pc[t] = "roll_open"

(* C4: with maxBytes = 0 no rotation ever happens: no backup exists, the
   stream is never closed and every line is in the one active file. *)
C4_ZeroNeverRotates ==
  maxBytes = 0 =>
    /\ rotations = 0
    /\ Backups = {}
    /\ hClosed = {}
    /\ \A f \in 1..MaxIno : content[f] # <<>> => f = names[0]

C4_Witness ==
  /\ maxBytes = 0
  /\ backupCount > 0
  /\ names[0] # 0
  /\ Len(content[names[0]]) = MaxRecords

(* C5: a record below the minimum level is dropped by the call that emits
   it, which formats nothing and touches neither sink, and no such record
   is ever formatted, written to a file or written to the console. *)
C5_NoTrace ==
  /\ below \cap formatted = {}
  /\ \A r \in below : console[r] = 0
  /\ \A f \in 1..MaxIno : below \cap Range(content[f]) = {}
  /\ \A t \in Threads : pc[t] # "idle" => Rec(t) \notin below

C5_DropStep ==
  \A r \in Recs :
    (r \notin below /\ r \in below')
      => UNCHANGED <<fsVars, sinkVars, lock, console, formatted, rotations,
                     pc, cur>>

C5_LevelFilter == []C5_NoTrace /\ [][C5_DropStep]_vars

C5_Witness ==
  /\ level = 0
  /\ filtered # {}
  /\ Accepted # {}
  /\ \A r \in Accepted : console[r] = 1
  /\ AllDone

(***************************************************************************)
(* Logger instances: Logger.__init__ and the objects it creates or looks   *)
(* up, and a call of log.<level>(msg) through one instance.                *)
(***************************************************************************)
MaxInst == 2
MaxEmits == 1

(* "" stands for an argument that is not given (None). *)
RootInputs == {"", "a", "b"}
NameInputs == {"x", "y"}
FmtInputs == {"", "custom"}
RotateInputs ==
  {<<FALSE, "size">>, <<TRUE, "size">>, <<TRUE, "time">>, <<TRUE, "daily">>}

(* The state of the rotation variables while Logger instances are
   constructed. *)
RotIdle ==
  /\ maxBytes = 0 /\ backupCount = 0 /\ level = 0 /\ delay = FALSE
  /\ names = [j \in 0..MaxIdx |-> 0]
  /\ content = [j \in 1..MaxIno |-> <<>>]
  /\ nIno = 0 /\ stream = 0 /\ nH = 0 /\ hClosed = {}
  /\ hIno = [h \in 1..MaxH |-> 0]
  /\ lock = 0
  /\ pc = [t \in Threads |-> "idle"]
  /\ cur = [t \in Threads |-> 0]
  /\ nrec = 0
  /\ loc = [t \in Threads |-> 0]
  /\ ri = [t \in Threads |-> 0]
  /\ below = {}
  /\ console = [r \in Recs |-> 0]
  /\ removedIdx = {} /\ dropped = {} /\ pending = {}
  /\ hitPending = FALSE /\ lastRotated = 0 /\ rotations = 0
  /\ filtered = {} /\ formatted = {} /\ failed = {}

(* A call of a class whose metaclass is Neo: the instance that exists
   already (existing # 0), otherwise a fresh one. *)
NeoCall(existing, fresh) == IF existing # 0 THEN existing ELSE fresh

(* The file handler Logger.__init__ chooses. *)
FileHandlerKind(rotate, rotate_by) ==
  IF rotate
    THEN IF rotate_by = "time" THEN "TimedRotatingFileHandler"
         ELSE "RotatingFileHandler"
    ELSE "FileHandler"

(* Logger.addHandler: append unless the handler is there already. *)
addHandler(hs, h) == IF h \in Range(hs) THEN hs ELSE Append(hs, h)

ExistingStream ==
  IF \E h \in 1..Len(handlers) : handlers[h].kind = "_StreamHandler"
    THEN CHOOSE h \in 1..Len(handlers) : handlers[h].kind = "_StreamHandler"
    ELSE 0

(* Logger(fmt=fmt, level=lv, name=name, root=root, colored=colored,
   rotate=rot[1], rotate_by=rot[2]) *)
Construct(root, lv, fmt, name, colored, rot) ==
  LET fIdx == NeoCall(IF formatters # <<>> THEN 1 ELSE 0, Len(formatters) + 1)
      sIdx == IF colored THEN NeoCall(ExistingStream, Len(handlers) + 1)
              ELSE Len(handlers) + 1
      handlers1 ==
        IF sIdx > Len(handlers)
          THEN Append(handlers,
                 [kind |-> IF colored THEN "_StreamHandler"
                           ELSE "StreamHandler",
                  file |-> "", formatter |-> fIdx, received |-> <<>>])
          ELSE [handlers EXCEPT ![sIdx].formatter = fIdx]
      fileIdx == Len(handlers1) + 1
      handlers2 ==
        Append(handlers1,
          [kind |-> FileHandlerKind(rot[1], rot[2]),
           file |-> name, formatter |-> fIdx, received |-> <<>>])
  IN
  /\ Len(insts) < MaxInst
  /\ formatters' = IF fIdx > Len(formatters)
                     THEN Append(formatters, [fmt |-> fmt])
                     ELSE formatters
  /\ handlers' = handlers2
  /\ insts' = Append(insts,
       [root |-> root, level |-> MinLevel(lv), fmt |-> fmt, name |-> name,
        colored |-> colored, rotate |-> rot[1], rotate_by |-> rot[2],
        formatter |-> fIdx, stream |-> sIdx, file |-> fileIdx])
  /\ loggers' = [loggers EXCEPT ![root] =
       [level |-> MinLevel(lv),
        handlers |-> addHandler(addHandler(@.handlers, fileIdx), sIdx)]]
  /\ UNCHANGED <<emits, rotVars, fmtVars>>

(* Logger.getEffectiveLevel: the first non-zero level from the logger up
   to the root logger. *)
getEffectiveLevel(root) ==
  IF loggers[root].level # 0 THEN loggers[root].level ELSE loggers[""].level

(* Logger.callHandlers: the handlers of the logger, then those of its
   parent, the root logger (propagate is left True). *)
callHandlers(root) ==
  IF root = "" THEN loggers[""].handlers
  ELSE loggers[root].handlers \o loggers[""].handlers

(* insts[i].log.<lvl>(msg): the adapter's logger is
   logging.getLogger(root); each handler on the way handles the record and
   formats it with its own formatter. *)
EmitVia(i, lvl) ==
  LET e == Len(emits) + 1
      chain == IF lvl >= getEffectiveLevel(insts[i].root)
                 THEN callHandlers(insts[i].root) ELSE <<>>
  IN
  /\ Len(emits) < MaxEmits
  /\ emits' = Append(emits, [via |-> i, lvl |-> lvl])
  /\ handlers' = [h \in 1..Len(handlers) |->
       [handlers[h] EXCEPT !.received = @ \o
          [k \in 1..Count(chain, h) |->
             [rec |-> e, fmt |-> formatters[handlers[h].formatter].fmt]]]]
  /\ UNCHANGED <<insts, loggers, formatters, rotVars, fmtVars>>

InitInst ==
  /\ RotIdle
  /\ FmtIdle
  /\ insts = <<>>
  /\ loggers = [r \in RootInputs |->
       [level |-> IF r = "" THEN WARNING ELSE 0, handlers |-> <<>>]]
  /\ handlers = <<>>
  /\ formatters = <<>>
  /\ emits = <<>>

NextInst ==
  \/ \E root \in RootInputs, lv \in LevelInputs, fmt \in FmtInputs,
        name \in NameInputs, colored \in BOOLEAN, rot \in RotateInputs :
       Construct(root, lv, fmt, name, colored, rot)
  \/ \E i \in 1..Len(insts), lvl \in RecordLevels : EmitVia(i, lvl)

SpecInst == InitInst /\ [][NextInst]_vars

(* The number of times record e reached handler h. *)
Received(h, e) ==
  Cardinality({k \in 1..Len(handlers[h].received) :
                 handlers[h].received[k].rec = e})

(* C6: no Logger exists that was built with rotation enabled and a
   rotate_by that is neither "size" nor "time": such a construction
   raises. *)
C6_InvalidModeRejected ==
  \A i \in 1..Len(insts) :
    ~(insts[i].rotate /\ insts[i].rotate_by \notin {"size", "time"})

(* C7: a record emitted through an instance reaches that instance's file
   sink exactly once when its level is at or above that instance's minimum
   level and not at all otherwise, and reaches the file sink of no other
   instance. *)
C7_NoSharing ==
  \A e \in 1..Len(emits) : \A j \in 1..Len(insts) :
    Received(insts[j].file, e) =
      IF j = emits[e].via /\ emits[e].lvl >= insts[j].level THEN 1 ELSE 0

(***************************************************************************)
(* The formatter: _Formatter.format and _StreamHandler.format.  A string   *)
(* is the sequence of its characters; an escape sequence of _colors is one *)
(* element.                                                                *)
(***************************************************************************)
MaxModuleLen == 33
ModuleWidth == 30
ModuleKeep == 27
LevelWidth == 8
ThreadWidth == 15

ColorDEF == <<"ESC[0m">>
BLD == <<"ESC[1m">>
RED == <<"ESC[91m">>
GRN == <<"ESC[92m">>
YLW == <<"ESC[93m">>
CYN == <<"ESC[96m">>

(* _colors.get(level, DEF) *)
_colors(lvl) ==
  CASE lvl = DEBUG -> CYN
    [] lvl = INFO -> GRN
    [] lvl = WARNING -> YLW
    [] lvl = ERROR -> RED
    [] lvl = CRITICAL -> BLD \o RED
    [] OTHER -> ColorDEF

(* record.levelname *)
levelname(lvl) ==
  CASE lvl = DEBUG -> <<"D", "E", "B", "U", "G">>
    [] lvl = INFO -> <<"I", "N", "F", "O">>
    [] lvl = WARNING -> <<"W", "A", "R", "N", "I", "N", "G">>
    [] lvl = ERROR -> <<"E", "R", "R", "O", "R">>
    [] lvl = CRITICAL -> <<"C", "R", "I", "T", "I", "C", "A", "L">>

Ellipsis == <<".", ".", ".">>
Traceback == <<"T", "r", "a", "c", "e", "b", "a", "c", "k">>
Kaamiki == <<"k", "a", "a", "m", "i", "k", "i">>
MainThread == <<"M", "a", "i", "n", "T", "h", "r", "e", "a", "d">>
ModuleScope == <<"<", "m", "o", "d", "u", "l", "e", ">">>
(* Stand-ins for get_python_lib(), %(asctime)s.%(msecs)03d, %(process)07d
   and the line numbers. *)
PythonLib == <<"/", "l", "i", "b">>
DateText == <<"N", "o", "v", " ", "0", "2">>
PidText == <<"0", "0", "4", "2">>
LinenoText == <<"0", "0", "0", "7">>
TbLineno == <<"9">>
(* The lines of a formatted traceback between its first line and the line
   of the exception. *)
TraceHead == <<" ", "(", "m", "o", "s", "t", " ", "r", "e", "c", "e", "n", "t", " ", "c", "a", "l", "l", " ", "l", "a", "s", "t", ")", ":">> \o <<"\n">> \o <<" ", " ", "F", "i", "l", "e">> \o <<"\n">>

(* The first index at which sub occurs in s, or 0: str.find + 1. *)
FindFrom(s, sub, p) ==
  LET M == {i \in p..(Len(s) - Len(sub) + 1) :
              SubSeq(s, i, i + Len(sub) - 1) = sub}
  IN IF M = {} THEN 0 ELSE CHOOSE i \in M : \A j \in M : i <= j

Find(s, sub) == FindFrom(s, sub, 1)

(* str.partition(sep) *)
Partition(s, sep) ==
  LET i == Find(s, sep)
  IN IF i = 0 THEN <<s, <<>>, <<>>>>
     ELSE <<SubSeq(s, 1, i - 1), sep, SubSeq(s, i + Len(sep), Len(s))>>

(* str.replace(old, new): every non-overlapping occurrence, left to right;
   an empty old matches before every character and at the end. *)
RECURSIVE ReplaceFrom(_, _, _, _)
ReplaceFrom(s, old, new, p) ==
  LET i == FindFrom(s, old, p)
  IN IF i = 0 THEN SubSeq(s, p, Len(s))
     ELSE SubSeq(s, p, i - 1) \o new \o ReplaceFrom(s, old, new, i + Len(old))

Replace(s, old, new) ==
  IF old = <<>>
    THEN [k \in 1..((Len(s) + 1) * Len(new) + Len(s)) |->
            IF (k - 1) % (Len(new) + 1) < Len(new)
              THEN new[((k - 1) % (Len(new) + 1)) + 1]
              ELSE s[((k - 1) \div (Len(new) + 1)) + 1]]
    ELSE ReplaceFrom(s, old, new, 1)

(* "{:>w}".format(s) *)
RJust(s, w) ==
  IF Len(s) >= w THEN s ELSE [j \in 1..(w - Len(s)) |-> " "] \o s

(* Path(name).stem for a name without separators: the name without its
   last suffix. *)
RFind(s, c) ==
  LET M == {i \in 1..Len(s) : s[i] = c}
  IN IF M = {} THEN 0 ELSE CHOOSE i \in M : \A j \in M : i >= j

Stem(name) ==
  LET i == RFind(name, ".")
  IN IF 1 < i /\ i < Len(name) THEN SubSeq(name, 1, i - 1) ELSE name

(* _Formatter.relative_path *)
relative_path(abspath) ==
  LET sep == IF Find(abspath, Kaamiki) # 0 THEN Kaamiki ELSE PythonLib
      rest == Partition(abspath, sep)[3]
  IN Stem(Replace(SubSeq(rest, 2, Len(rest)), <<"/">>, <<".">>))

(* if len(module) > 30: module = module[:27] + bool(module[27:]) * "..."
   The first definition shortens every name of more than 27 characters. *)
Shorten_Above27(m) ==
  IF Len(m) > ModuleKeep
    THEN SubSeq(m, 1, ModuleKeep) \o
         (IF SubSeq(m, ModuleKeep + 1, Len(m)) # <<>> THEN Ellipsis ELSE <<>>)
    ELSE m

Shorten(m) ==
  IF Len(m) > ModuleWidth
    THEN SubSeq(m, 1, ModuleKeep) \o
         (IF SubSeq(m, ModuleKeep + 1, Len(m)) # <<>> THEN Ellipsis ELSE <<>>)
    ELSE m

(* "main" if record.threadName == "MainThread" else record.threadName *)
thd(r) == IF r.threadName = MainThread THEN <<"m", "a", "i", "n">> ELSE r.threadName

(* The line logging.Formatter(template, datefmt).formatMessage(record)
   yields: the template given by the user, here
   "%(levelname)s:%(message)s", or the default template with the thread and
   the module filled in. *)
formatMessage(r, user) ==
  IF user
    THEN levelname(r.levelno) \o <<":">> \o r.msg
    ELSE DateText \o <<" ">> \o RJust(levelname(r.levelno), LevelWidth)
         \o <<" ">> \o PidText \o <<" ", "[">> \o RJust(thd(r), ThreadWidth)
         \o <<"]", " ">> \o RJust(Shorten(relative_path(r.pathname)), ModuleWidth)
         \o <<":">> \o LinenoText \o <<" ", ":", " ">> \o r.msg

(* logging.Formatter.formatException: the traceback text, which ends with
   the line "<ErrorKind>: <text of the exception>". *)
formatException(ei) ==
  Traceback \o TraceHead \o ei.kind \o <<":", " ">> \o ei.text

(* logging.Formatter.format: the message line, then a newline and the
   traceback text when the record carries exception info. *)
baseFormat(r, user) ==
  IF r.exc_info = <<>> THEN formatMessage(r, user)
  ELSE formatMessage(r, user) \o <<"\n">> \o formatException(r.exc_info[1])

(* self.exc_fmt.format(kind, record.msg, func, tb_lineno) with
   func = f"in {func}() " if func != "<module>" else "" *)
exc_msg(r) ==
  r.exc_info[1].kind \o <<":", " ">> \o r.msg \o <<" ">>
  \o (IF r.funcName # ModuleScope
        THEN <<"i", "n", " ">> \o r.funcName \o <<"(", ")", " ">> ELSE <<>>)
  \o <<"o", "n", " ", "l", "i", "n", "e", " ">> \o TbLineno

(* _Formatter.format *)
format(r, user) ==
  IF r.exc_info = <<>> THEN baseFormat(r, user)
  ELSE Partition(
         Replace(Replace(baseFormat(r, user), <<"\n">>, <<>>),
                 r.exc_info[1].text, exc_msg(r)),
         Traceback)[1]

(* _StreamHandler.render and _StreamHandler.format *)
render(r) == _colors(r.levelno) \o levelname(r.levelno)

streamFormat(r, user) ==
  Replace(format(r, user), levelname(r.levelno), render(r) \o ColorDEF)

(* Inputs: the source paths, messages and exceptions of the records. *)
ModuleLens == {0, 3, ModuleKeep, ModuleWidth - 1, ModuleWidth,
               ModuleWidth + 1, MaxModuleLen}
BodyOf(n) == [j \in 1..n |-> IF j % 6 = 0 THEN "/" ELSE "m"]
PathInputs ==
  {<<"/", "h", "/", "k", "a", "a", "m", "i", "k", "i", "/">> \o BodyOf(n) \o <<".", "p", "y">> : n \in ModuleLens}
  \cup {PythonLib \o <<"/">> \o BodyOf(n) \o <<".", "p", "y">> : n \in ModuleLens}
  \cup {<<"/", "t", "m", "p", "/", "r", "u", "n", ".", "p", "y">>}
MsgInputs == {<<"o", "k">>, <<"b", "o", "o", "m">>, <<"a", "n", " ", "E", "R", "R", "O", "R">>, <<"I", "N", "F", "O", " ", "b", "o", "o", "m">>}
ExcInputs ==
  {<<>>, <<[kind |-> <<"V", "a", "l", "u", "e", "E", "r", "r", "o", "r">>, text |-> <<"b", "o", "o", "m">>]>>,
   <<[kind |-> <<"O", "S", "E", "r", "r", "o", "r">>, text |-> <<"o", "k">>]>>}
FuncInputs == {ModuleScope, <<"r", "u", "n">>}
ThreadInputs == {MainThread, <<"T", "1">>}

RecInputs ==
  [levelno : Levels, msg : MsgInputs, pathname : PathInputs,
   exc_info : ExcInputs, funcName : FuncInputs, threadName : ThreadInputs]

InitFmt ==
  /\ RotIdle
  /\ insts = <<>> /\ loggers = <<>> /\ handlers = <<>>
  /\ formatters = <<>> /\ emits = <<>>
  /\ rec \in RecInputs
  /\ userFmt \in BOOLEAN
  /\ module = <<>>
  /\ line = <<>>
  /\ cline = <<>>
  /\ phase = "new"

(* The file sink formats the record: self.file.format(record). *)
FileFormat ==
  /\ phase = "new"
  /\ module' = IF userFmt THEN <<>> ELSE Shorten(relative_path(rec.pathname))
  /\ line' = format(rec, userFmt)
  /\ phase' = "file"
  /\ UNCHANGED <<rec, userFmt, cline, rotVars, instVars>>

(* The console sink formats the record: self.stream.format(record). *)
StreamFormat ==
  /\ phase = "file"
  /\ cline' = streamFormat(rec, userFmt)
  /\ phase' = "console"
  /\ UNCHANGED <<rec, userFmt, module, line, rotVars, instVars>>

NextFmt == FileFormat \/ StreamFormat

SpecFmt == InitFmt /\ [][NextFmt]_vars

(***************************************************************************)
(* Properties of the formatter                                             *)
(***************************************************************************)
Occurrences(s, sub) ==
  Cardinality({i \in 1..(Len(s) - Len(sub) + 1) :
                 SubSeq(s, i, i + Len(sub) - 1) = sub})

(* The summary clause "<ErrorKind>: <message> [in <function>() ]on line
   <n>" of a record that carries exception info. *)
SummaryClause(r) ==
  r.exc_info[1].kind \o <<":", " ">> \o r.msg \o <<" ">>
  \o (IF r.funcName = ModuleScope THEN <<>>
      ELSE <<"i", "n", " ">> \o r.funcName \o <<"(", ")", " ">>)
  \o <<"o", "n", " ", "l", "i", "n", "e", " ">> \o TbLineno

(* C8: the line of a record without exception info is the plain message
   line and has no summary clause; the line of a record with exception
   info has no newline and no traceback text and contains exactly one
   summary clause, with the function part iff the function is not the
   module scope. *)
C8_ExceptionSummary ==
  phase # "new" =>
    IF rec.exc_info = <<>>
      THEN /\ line = formatMessage(rec, userFmt)
           /\ Occurrences(line, <<"o", "n", " ", "l", "i", "n", "e", " ">>) = 0
      ELSE /\ Occurrences(line, <<"\n">>) = 0
           /\ Occurrences(line, Traceback) = 0
           /\ Occurrences(line, SummaryClause(rec)) = 1
           /\ Occurrences(line, <<"o", "n", " ", "l", "i", "n", "e", " ">>) = 1

(* The position of the level token in the plain line. *)
LevelPos(r, user) ==
  IF user THEN 1
  ELSE Len(DateText) + 1 + (LevelWidth - Len(levelname(r.levelno))) + 1

(* C9: the console line is the plain line with the level token, and
   nothing else, replaced by <colour of the level><level name><reset>. *)
C9_OnlyLevelToken ==
  phase = "console" =>
    cline = SubSeq(line, 1, LevelPos(rec, userFmt) - 1)
            \o _colors(rec.levelno) \o levelname(rec.levelno) \o ColorDEF
            \o SubSeq(line,
                      LevelPos(rec, userFmt) + Len(levelname(rec.levelno)),
                      Len(line))

(* The position of the module field in a line of the default template. *)
ModulePos ==
  Len(DateText) + 1 + LevelWidth + 1 + Len(PidText) + 2 + ThreadWidth + 2 + 1

(* C10: with the default template a module name of at most 30 characters
   is rendered unchanged, a longer one as its first 27 characters followed
   by "...", and the rendered name is never longer than 30 characters. *)
C10_ModuleTruncation ==
  (phase # "new" /\ ~userFmt) =>
    LET m == relative_path(rec.pathname)
    IN /\ Len(m) <= 30 => module = m
       /\ Len(m) > 30 => module = SubSeq(m, 1, 27) \o Ellipsis
       /\ Len(module) <= 30
       /\ SubSeq(line, ModulePos, ModulePos + 29) =
            [j \in 1..(30 - Len(module)) |-> " "] \o module

C10_Witness ==
  /\ phase = "file"
  /\ ~userFmt
  /\ Len(relative_path(rec.pathname)) = 31
  /\ Len(module) = 30
  /\ SubSeq(module, 28, 30) = Ellipsis

====
